---- MODULE Spec2Model ----
(***************************************************************************)
(* easy_storage: the KvStorage contract (src/src/lib.rs) and its two       *)
(* backends, WasmCookiesKvStorage (cookie jar) and FileBasedKvStorage      *)
(* (one file per key), as state machines over their persistence medium.   *)
(*                                                                         *)
(* A string value is a sequence of one-character strings.  A path is the  *)
(* sequence of its components.  A key is a single path component / cookie *)
(* name made of unreserved ASCII letters.                                  *)
(***************************************************************************)
EXTENDS Naturals, Sequences, FiniteSets, TLC

VARIABLES
    target,     \* the cfg the crate was built for: "wasm", "windows", "android"
    env,        \* the value of the APPDATA environment variable, or Unset
    inst,       \* FileBasedKvStorage.0 of the constructed instance, or NoInstance
    panicked,   \* the expect() of get_roaming_path aborted construction
    fs,         \* the filesystem: [dirs: set of paths, files: path -> contents]
    jar,        \* the cookie jar: cookie name -> URL-encoded value
    last,       \* the most recent call on the medium and what it returned
    prev,       \* the call before it
    written,    \* keys for which write was ever called
    proc,       \* concurrent writers: each one's position inside write()
    order       \* concurrent writers in the order their write() returned

vars == <<target, env, inst, panicked, fs, jar, last, prev, written, proc, order>>

----------------------------------------------------------------------------
(* Bounds and input sets *)

MaxLen == 1

RaceMaxLen == 2

Chars == {"x", "%"}

SeqsUpTo(S, n) == UNION {[1..m -> S] : m \in 0..n}

Values == SeqsUpTo(Chars, MaxLen)

RaceValues == SeqsUpTo(Chars, RaceMaxLen)

APP_NAME == "PokeIpGo"

Unset == <<>>

AppData1 == <<"Roaming">>

AppData2 == <<"Elsewhere">>

EnvValues == {Unset, AppData1, AppData2}

NoInstance == <<>>

FileTargets == {"windows", "android"}

Targets == {"wasm"} \cup FileTargets

PlainKeys == {"a", "b"}

----------------------------------------------------------------------------
(* std::path *)

Parent(p) == SubSeq(p, 1, Len(p) - 1)

FileName(p) == p[Len(p)]

\* PathBuf::with_file_name: replaces the final component (push when there is none)
WithFileName(p, name) == IF p = <<>> THEN <<name>> ELSE Append(Parent(p), name)

\* PathBuf::join, the composition directory/key
Join(p, name) == Append(p, name)

IsPrefix(p, q) == Len(p) <= Len(q) /\ SubSeq(q, 1, Len(p)) = p

Ancestors(p) == {SubSeq(p, 1, n) : n \in 1..Len(p)}

\* get_roaming_path for a target (the windows one reads env and panics on Unset)
GetRoamingPath(t, e) ==
    IF t = "windows" THEN Append(e, APP_NAME) ELSE <<".", "store">>

GetRoamingPathPanics(t, e) == t = "windows" /\ e = Unset

\* the key that names the final component of the base path
ReservedKey(t) == FileName(GetRoamingPath(t, AppData1))

KeysOf(t) == IF t = "wasm" THEN PlainKeys ELSE PlainKeys \cup {ReservedKey(t)}

----------------------------------------------------------------------------
(* std::fs, with the I/O failures the medium can produce as an input *)

NoFault == [kind |-> "none", n |-> 0]

WriteFaults ==
    [kind : {"none", "mkdir", "open"}, n : {0}] \cup [kind : {"short"}, n : 0..(MaxLen - 1)]

ReadFaults == [kind : {"none", "mkdir"}, n : {0}]

EmptyFs(roots) == [dirs |-> roots, files |-> [q \in {} |-> <<>>]]

\* fs::create_dir in its place: an existing directory is an error
CreateDir(f, p, fault) ==
    IF p \in f.dirs \/ p \in DOMAIN f.files THEN [fs |-> f, err |-> "AlreadyExists"]
    ELSE IF fault.kind = "mkdir" THEN [fs |-> f, err |-> "PermissionDenied"]
    ELSE [fs |-> [f EXCEPT !.dirs = @ \cup Ancestors(p)], err |-> ""]

\* fs::create_dir_all: Ok on an existing directory, else creates the whole chain
CreateDirAll(f, p, fault) ==
    IF p \in f.dirs THEN [fs |-> f, err |-> ""]
    ELSE IF \E q \in Ancestors(p) : q \in DOMAIN f.files
         THEN [fs |-> f, err |-> "AlreadyExists"]
    ELSE IF fault.kind = "mkdir" THEN [fs |-> f, err |-> "PermissionDenied"]
    ELSE [fs |-> [f EXCEPT !.dirs = @ \cup Ancestors(p)], err |-> ""]

PutFile(f, path, contents) ==
    [f EXCEPT !.files = [q \in DOMAIN f.files \cup {path} |->
                            IF q = path THEN contents ELSE f.files[q]]]

\* an open with create but without truncate: an existing file keeps its bytes
FsCreateNoTruncate(f, path, fault) ==
    IF path \in f.dirs THEN [fs |-> f, err |-> "IsADirectory"]
    ELSE IF Parent(path) \notin f.dirs THEN [fs |-> f, err |-> "NotFound"]
    ELSE IF fault.kind = "open" THEN [fs |-> f, err |-> "PermissionDenied"]
    ELSE IF path \in DOMAIN f.files THEN [fs |-> f, err |-> ""]
    ELSE [fs |-> PutFile(f, path, <<>>), err |-> ""]

\* File::create: open with create + truncate
FsCreate(f, path, fault) ==
    IF path \in f.dirs THEN [fs |-> f, err |-> "IsADirectory"]
    ELSE IF Parent(path) \notin f.dirs THEN [fs |-> f, err |-> "NotFound"]
    ELSE IF fault.kind = "open" THEN [fs |-> f, err |-> "PermissionDenied"]
    ELSE [fs |-> PutFile(f, path, <<>>), err |-> ""]

\* bytes written at offset 0 of a file: what lay beyond them stays
Overwrite(old, bytes) == bytes \o SubSeq(old, Len(bytes) + 1, Len(old))

\* Write::write_all on the handle File::create returned (its offset is 0); a
\* failure part-way leaves the bytes written before it
FsWriteAll(f, path, value, fault) ==
    IF fault.kind = "short" /\ fault.n < Len(value)
    THEN [fs |-> PutFile(f, path, Overwrite(f.files[path], SubSeq(value, 1, fault.n))),
          err |-> "StorageFull"]
    ELSE [fs |-> PutFile(f, path, Overwrite(f.files[path], value)), err |-> ""]

\* fs::write: File::create(path)?.write_all(contents)
FsWrite(f, path, value, fault) ==
    LET c == FsCreate(f, path, fault)
    IN  IF c.err # "" THEN c ELSE FsWriteAll(c.fs, path, value, fault)

\* fs::read_to_string
FsReadToString(f, path) ==
    IF path \in DOMAIN f.files THEN [err |-> "", out |-> f.files[path]]
    ELSE IF path \in f.dirs THEN [err |-> "IsADirectory", out |-> <<>>]
    ELSE [err |-> "NotFound", out |-> <<>>]

\* removing a directory with everything beneath it (done by something else
\* than the backend)
RemoveDirAll(f, p) ==
    [dirs |-> {d \in f.dirs : ~IsPrefix(p, d)},
     files |-> [q \in {r \in DOMAIN f.files : ~IsPrefix(p, r)} |-> f.files[q]]]

----------------------------------------------------------------------------
(* wasm_cookies: the cookie jar holds URL-encoded text *)

\* urlencoding::encode, as wasm_cookies::set applies it to the value
RECURSIVE UrlEncode(_)
UrlEncode(s) ==
    IF s = <<>> THEN <<>>
    ELSE (IF Head(s) = "%" THEN <<"%", "2", "5">> ELSE <<Head(s)>>) \o UrlEncode(Tail(s))

\* urlencoding::decode, as wasm_cookies::get applies it to the stored value
RECURSIVE UrlDecode(_)
UrlDecode(e) ==
    IF e = <<>> THEN [err |-> "", out |-> <<>>]
    ELSE IF Head(e) = "%"
         THEN IF Len(e) >= 3 /\ e[2] = "2" /\ e[3] = "5"
              THEN LET r == UrlDecode(SubSeq(e, 4, Len(e)))
                   IN  [err |-> r.err, out |-> IF r.err = "" THEN <<"%">> \o r.out ELSE <<>>]
              ELSE [err |-> "UrlDecodeError", out |-> <<>>]
    ELSE LET r == UrlDecode(Tail(e))
         IN  [err |-> r.err, out |-> IF r.err = "" THEN <<Head(e)>> \o r.out ELSE <<>>]

\* wasm_cookies::set(key, value, default options); a key of unreserved letters
\* is its own encoding
CookieSet(j, key, value) ==
    [n \in DOMAIN j \cup {key} |-> IF n = key THEN UrlEncode(value) ELSE j[n]]

\* WasmCookiesKvStorage::read
CookieRead(j, key) ==
    IF key \in DOMAIN j
    THEN LET d == UrlDecode(j[key]) IN [err |-> d.err, out |-> d.out, path |-> <<>>]
    ELSE [err |-> "", out |-> <<>>, path |-> <<>>]

\* WasmCookiesKvStorage::write: Infallible
CookieWrite(j, key, value) == [jar |-> CookieSet(j, key, value), err |-> "", path |-> <<>>]

----------------------------------------------------------------------------
(* FileBasedKvStorage *)

\* the path resolved again from the environment at every call
SelfPathFromEnv == GetRoamingPath(target, env)

\* self.0
SelfPath == inst

\* the key as a child of the base directory
KeyPathJoined(base, key) == Join(base, key)

\* let path = self.0.with_file_name(key)
KeyPath(base, key) == WithFileName(base, key)

\* a read that looks for the record under the base directory while write
\* puts it beside it
FileReadJoined(f, base, key, fault) ==
    LET m == CreateDirAll(f, base, fault)
    IN  IF m.err # "" THEN [fs |-> m.fs, err |-> m.err, out |-> <<>>, path |-> <<>>]
        ELSE LET path == Join(base, key)
                 r == FsReadToString(m.fs, path)
             IN  [fs |-> m.fs, err |-> r.err, out |-> r.out, path |-> path]

\* a read that opens the file with create: a missing record becomes an empty one
FileReadCreates(f, base, key, fault) ==
    LET m == CreateDirAll(f, base, fault)
    IN  IF m.err # "" THEN [fs |-> m.fs, err |-> m.err, out |-> <<>>, path |-> <<>>]
        ELSE LET path == WithFileName(base, key)
                 c == IF path \in DOMAIN m.fs.files \/ path \in m.fs.dirs
                      THEN m.fs ELSE PutFile(m.fs, path, <<>>)
                 r == FsReadToString(c, path)
             IN  [fs |-> c, err |-> r.err, out |-> r.out, path |-> path]

\* FileBasedKvStorage::read
FileRead(f, base, key, fault) ==
    LET m == CreateDirAll(f, base, fault)
    IN  IF m.err # "" THEN [fs |-> m.fs, err |-> m.err, out |-> <<>>, path |-> <<>>]
        ELSE LET path == KeyPath(base, key)
                 r == FsReadToString(m.fs, path)
             IN  [fs |-> m.fs, err |-> r.err, out |-> r.out, path |-> path]

\* FileBasedKvStorage::write
FileWrite(f, base, key, value, fault) ==
    LET m == CreateDirAll(f, base, fault)
    IN  IF m.err # "" THEN [fs |-> m.fs, err |-> m.err, path |-> <<>>]
        ELSE LET path == KeyPath(base, key)
                 w == FsWrite(m.fs, path, value, fault)
             IN  [fs |-> w.fs, err |-> w.err, path |-> path]

----------------------------------------------------------------------------
(* Calls through the KvStorage trait *)

Call(op, key, val, err, out, path) ==
    [op |-> op, key |-> key, val |-> val, err |-> err, out |-> out, path |-> path]

NoCall == Call("none", "", <<>>, "", <<>>, <<>>)

Constructed == ~panicked /\ (target \in FileTargets => inst # NoInstance)

\* what read(key) returns in the current state when the medium does not fail
ReadOutcome(key) ==
    IF target = "wasm"
    THEN LET r == CookieRead(jar, key) IN [err |-> r.err, out |-> r.out]
    ELSE LET r == FileRead(fs, SelfPath, key, NoFault) IN [err |-> r.err, out |-> r.out]

Ok(v) == [err |-> "", out |-> v]

IsErr(r) == r.err # ""

\* KvStorage::read(&self, key)
Read(key, fault) ==
    /\ Constructed
    /\ key \in KeysOf(target)
    /\ IF target = "wasm"
       THEN LET r == CookieRead(jar, key)
            IN  /\ last' = Call("read", key, <<>>, r.err, r.out, r.path)
                /\ UNCHANGED fs
       ELSE LET r == FileRead(fs, SelfPath, key, fault)
            IN  /\ last' = Call("read", key, <<>>, r.err, r.out, r.path)
                /\ fs' = r.fs
    /\ UNCHANGED <<target, env, inst, panicked, jar, written, proc, order>>

\* KvStorage::write(&self, key, value)
Write(key, value, fault) ==
    /\ Constructed
    /\ key \in KeysOf(target)
    /\ fault.kind = "short" => fault.n < Len(value)
    /\ IF target = "wasm"
       THEN LET r == CookieWrite(jar, key, value)
            IN  /\ last' = Call("write", key, value, r.err, <<>>, r.path)
                /\ jar' = r.jar
                /\ UNCHANGED fs
       ELSE LET r == FileWrite(fs, SelfPath, key, value, fault)
            IN  /\ last' = Call("write", key, value, r.err, <<>>, r.path)
                /\ fs' = r.fs
                /\ UNCHANGED jar
    /\ written' = written \cup {key}
    /\ UNCHANGED <<target, env, inst, panicked, proc, order>>

\* the base directory is deleted entirely by something outside the backend
DeleteDir ==
    /\ target \in FileTargets
    /\ Constructed
    /\ SelfPath \in fs.dirs
    /\ fs' = RemoveDirAll(fs, SelfPath)
    /\ last' = Call("rmdir", "", <<>>, "", <<>>, SelfPath)
    /\ UNCHANGED <<target, env, inst, panicked, jar, written, proc, order>>

Procs == {1, 2}

Idle == [p \in Procs |-> [pc |-> "idle", key |-> "", val |-> <<>>]]

\* the directories that exist before the backend creates any
Roots(t) == IF t = "windows" THEN {AppData1, AppData2} ELSE {<<".">>}

\* a constructed backend of any target over a clean medium
Init ==
    /\ target \in Targets
    /\ env = IF target = "windows" THEN AppData1 ELSE Unset
    /\ inst = IF target \in FileTargets THEN GetRoamingPath(target, env) ELSE NoInstance
    /\ panicked = FALSE
    /\ fs = EmptyFs(Roots(target))
    /\ jar = [n \in {} |-> <<>>]
    /\ last = NoCall
    /\ prev = NoCall
    /\ written = {}
    /\ proc = Idle
    /\ order = <<>>

\* any calls, any failures of the medium, one call of history
Next ==
    \/ \E k \in KeysOf(target), ft \in ReadFaults : Read(k, ft) /\ UNCHANGED prev
    \/ \E k \in KeysOf(target), v \in Values, ft \in WriteFaults :
            Write(k, v, ft) /\ UNCHANGED prev
    \/ DeleteDir /\ UNCHANGED prev

Spec == Init /\ [][Next]_vars

\* a medium that does not fail, two calls of history
NextSeq ==
    \/ \E k \in KeysOf(target) : Read(k, NoFault) /\ prev' = last
    \/ \E k \in KeysOf(target), v \in Values : Write(k, v, NoFault) /\ prev' = last
    \/ DeleteDir /\ prev' = last

SpecSeq == Init /\ [][NextSeq]_vars

----------------------------------------------------------------------------
(* Construction of the file backend and the environment it reads *)

\* std::env: APPDATA is set, changed or removed
SetEnv(e) ==
    /\ target \in FileTargets
    /\ ~panicked
    /\ e # env
    /\ env' = e
    /\ UNCHANGED <<target, inst, panicked, fs, jar, last, prev, written, proc, order>>

\* FileBasedKvStorage::default(): get_roaming_path() for the log line and for
\* the instance; the windows one panics in expect() when APPDATA is unset
Construct ==
    /\ target \in FileTargets
    /\ ~panicked
    /\ inst = NoInstance
    /\ IF GetRoamingPathPanics(target, env)
       THEN panicked' = TRUE /\ UNCHANGED inst
       ELSE inst' = GetRoamingPath(target, env) /\ UNCHANGED panicked
    /\ UNCHANGED <<target, env, fs, jar, last, prev, written, proc, order>>

InitEnv ==
    /\ target \in FileTargets
    /\ env \in EnvValues
    /\ inst = NoInstance
    /\ panicked = FALSE
    /\ fs = EmptyFs(Roots(target))
    /\ jar = [n \in {} |-> <<>>]
    /\ last = NoCall
    /\ prev = NoCall
    /\ written = {}
    /\ proc = Idle
    /\ order = <<>>

NextEnv ==
    \/ \E e \in EnvValues : SetEnv(e)
    \/ Construct
    \/ \E k \in KeysOf(target) : Read(k, NoFault) /\ UNCHANGED prev
    \/ \E k \in KeysOf(target), v \in Values : Write(k, v, NoFault) /\ UNCHANGED prev

SpecEnv == InitEnv /\ [][NextEnv]_vars

----------------------------------------------------------------------------
(* Two instances rooted at the same directory, each inside write(); the    *)
(* steps of write() are its three calls into the filesystem                *)

\* fs::create_dir_all(&self.0)?
RaceMkdir(p) ==
    /\ proc[p].pc = "mkdir"
    /\ LET m == CreateDirAll(fs, SelfPath, NoFault)
       IN  /\ fs' = m.fs
           /\ proc' = [proc EXCEPT ![p].pc = IF m.err = "" THEN "open" ELSE "failed"]
    /\ UNCHANGED <<target, env, inst, panicked, jar, last, prev, written, order>>

\* File::create(path) inside fs::write
RaceOpen(p) ==
    /\ proc[p].pc = "open"
    /\ LET c == FsCreate(fs, KeyPath(SelfPath, proc[p].key), NoFault)
       IN  /\ fs' = c.fs
           /\ proc' = [proc EXCEPT ![p].pc = IF c.err = "" THEN "write" ELSE "failed"]
    /\ UNCHANGED <<target, env, inst, panicked, jar, last, prev, written, order>>

\* write_all(contents) inside fs::write, and the return of write()
RaceWriteAll(p) ==
    /\ proc[p].pc = "write"
    /\ LET w == FsWriteAll(fs, KeyPath(SelfPath, proc[p].key), proc[p].val, NoFault)
       IN  /\ fs' = w.fs
           /\ proc' = [proc EXCEPT ![p].pc = IF w.err = "" THEN "done" ELSE "failed"]
    /\ order' = Append(order, p)
    /\ written' = written \cup {proc[p].key}
    /\ UNCHANGED <<target, env, inst, panicked, jar, last, prev>>

InitRace ==
    /\ target \in FileTargets
    /\ env = IF target = "windows" THEN AppData1 ELSE Unset
    /\ inst = GetRoamingPath(target, env)
    /\ panicked = FALSE
    /\ fs = EmptyFs(Roots(target))
    /\ jar = [n \in {} |-> <<>>]
    /\ last = NoCall
    /\ prev = NoCall
    /\ written = {}
    /\ proc \in [Procs -> [pc : {"mkdir"}, key : PlainKeys, val : RaceValues]]
    /\ order = <<>>

NextRace == \E p \in Procs : RaceMkdir(p) \/ RaceOpen(p) \/ RaceWriteAll(p)

SpecRace == InitRace /\ [][NextRace]_vars

----------------------------------------------------------------------------
(* Properties *)

IsCall(c) == c.op \in {"read", "write"}

OkWrite(c) == c.op = "write" /\ c.err = ""

\* C1: write-then-read consistency.  On either backend, when write(k, v)
\* returned success and the very next call is read(k), that read returns
\* success with exactly v.
C1_WriteThenRead ==
    (OkWrite(prev) /\ last.op = "read" /\ last.key = prev.key)
        => (last.err = "" /\ last.out = prev.val)

\* a read has just returned the value "%" that the call before it wrote
C1_Witness ==
    /\ OkWrite(prev) /\ prev.val = <<"%">>
    /\ last.op = "read" /\ last.key = prev.key /\ last.out = <<"%">>

\* C2: overwrite semantics.  After write(k, v1) and then write(k, v2) both
\* succeeded, a read(k) that follows returns exactly v2: not v1, not a merge of
\* the two, also when v2 is shorter than v1.
C2_Overwrite ==
    [][(/\ OkWrite(prev) /\ OkWrite(last) /\ prev.key = last.key
        /\ last'.op = "read" /\ last'.key = last.key)
          => (last'.err = "" /\ last'.out = last.val)]_vars

\* two successful writes to one key, the second with a shorter value
C2_Witness ==
    /\ OkWrite(prev) /\ OkWrite(last) /\ prev.key = last.key
    /\ Len(last.val) < Len(prev.val)

\* C3: file-backend record placement.  Every read(k) and write(k, v) accesses
\* the file directory/k, directly under the base directory the call created.
C3_RecordUnderBaseDir ==
    (IsCall(last) /\ last.path # <<>>) => last.path = Join(SelfPath, last.key)

\* C4: a failed write does not mutate state.  When write(k, v) returns an
\* error, read(k) returns afterwards what it returned before the call.
C4_FailedWriteKeepsValue ==
    [][\A k \in KeysOf(target) :
          (last'.op = "write" /\ last'.key = k /\ last'.err # "")
              => ReadOutcome(k)' = ReadOutcome(k)]_vars

\* C4, the part about a stored value: a failed write(k, v) leaves the value
\* that read(k) returned before it.
C4_PriorValueKept ==
    [][\A k \in KeysOf(target) :
          (last'.op = "write" /\ last'.key = k /\ last'.err # "" /\ ~IsErr(ReadOutcome(k)))
              => ReadOutcome(k)' = ReadOutcome(k)]_vars

\* the backend's outcome for a key that has no record
AbsentPolicy(r) == IF target = "wasm" THEN r = Ok(<<>>) ELSE IsErr(r)

HasRecord(key) ==
    IF target = "wasm" THEN key \in DOMAIN jar
    ELSE KeyPath(SelfPath, key) \in DOMAIN fs.files

\* C5: absent-key policy consistency.  For a key that was never written, every
\* read, the first and each repeated one, gives the backend's one outcome (cookie:
\* success with the empty string; file: an I/O error), and no read creates a
\* record for the key.
C5_AbsentKeyPolicy ==
    /\ \A k \in KeysOf(target) \ written :
          AbsentPolicy(ReadOutcome(k)) /\ ~HasRecord(k)
    /\ \A c \in {prev, last} :
          (c.op = "read" /\ c.key \notin written)
              => AbsentPolicy([err |-> c.err, out |-> c.out])

\* the same never-written key was read twice in a row, after another key was
\* written
C5_Witness ==
    /\ prev.op = "read" /\ last.op = "read" /\ prev.key = last.key
    /\ last.key \notin written /\ written # {}

\* the filesystem without the base directory, and with it created again
WithoutBase == RemoveDirAll(fs, SelfPath)

WithBase == CreateDirAll(WithoutBase, SelfPath, NoFault).fs

\* C6: idempotent directory setup.  read(k) and write(k, v) give the same
\* result and leave the same filesystem whether or not the base directory exists
\* when the call starts; and when the directory is deleted after a successful
\* write(k, v1), the next write(k, v2) recreates it and succeeds, and read(k)
\* then returns v2.
C6_IdempotentDirSetup ==
    /\ [](target \in FileTargets =>
            \A k \in KeysOf(target) :
                /\ FileRead(WithoutBase, SelfPath, k, NoFault)
                      = FileRead(WithBase, SelfPath, k, NoFault)
                /\ \A v \in Values :
                      FileWrite(WithoutBase, SelfPath, k, v, NoFault)
                          = FileWrite(WithBase, SelfPath, k, v, NoFault))
    /\ [][\A k \in KeysOf(target), v \in Values :
             (/\ OkWrite(prev) /\ prev.key = k /\ last.op = "rmdir"
              /\ last'.op = "write" /\ last'.key = k /\ last'.val = v)
                => (/\ last'.err = ""
                    /\ SelfPath \in fs'.dirs
                    /\ ReadOutcome(k)' = Ok(v))]_vars

\* a write has just succeeded right after the base directory was deleted
C6_Witness ==
    /\ prev.op = "rmdir" /\ OkWrite(last) /\ last.val # <<>>
    /\ SelfPath \in fs.dirs

AllDone == \A p \in Procs : proc[p].pc = "done"

\* C7: last writer wins.  Once two concurrent write(k, v1) and write(k, v2) on
\* the same directory have both returned success, read(k) returns the whole
\* value of the write that returned last.
C7_LastWriterWins ==
    (AllDone /\ proc[1].key = proc[2].key)
        => ReadOutcome(proc[1].key) = Ok(proc[order[Len(order)]].val)

\* C8: environment resolution is confined to construction.  Construction
\* panics exactly when the target is windows and APPDATA is unset, and then no
\* instance exists; android never panics; a constructed instance keeps its base
\* path, every later call works on that path, and setting, changing or removing
\* APPDATA afterwards changes the result of no read or write.
C8_EnvOnlyAtConstruction ==
    /\ [](/\ panicked => (inst = NoInstance /\ target = "windows" /\ env = Unset)
          /\ target = "android" => ~panicked
          /\ (IsCall(last) /\ last.path # <<>>) => last.path = KeyPath(inst, last.key)
          /\ (last.op = "write" /\ last.key \in PlainKeys) => last.err = "")
    /\ [][/\ inst # NoInstance => (inst' = inst /\ ~panicked')
          /\ (inst = NoInstance /\ inst' # NoInstance)
                => (target = "windows" => (env # Unset /\ inst' = Append(env, APP_NAME)))
          /\ (inst = NoInstance /\ ~panicked /\ target = "windows" /\ env = Unset)
                => inst' = NoInstance
          /\ (inst # NoInstance /\ env' # env)
                => \A k \in KeysOf(target) : ReadOutcome(k)' = ReadOutcome(k)]_vars

\* a write succeeded under the instance's path while APPDATA names another
\* directory or none
C8_Witness ==
    /\ target = "windows" /\ inst # NoInstance /\ env # Parent(inst)
    /\ OkWrite(last) /\ Parent(last.path) = Parent(inst)

\* C9 (frame part): a read(k) or write(k, v), succeeding or failing, leaves the
\* outcome of read(k') unchanged for every other key k'.
C9_Frame ==
    [][\A k \in KeysOf(target) :
          (IsCall(last') /\ last'.key # k) => ReadOutcome(k)' = ReadOutcome(k)]_vars

\* C9: record independence.  The outcome of read(k') is that of the most
\* recent successful write to k' only: no call other than a successful
\* write(k', v) changes it (no call on another key, and no read or failed write
\* on k' itself).
C9_OnlySuccessfulWriteChanges ==
    [][IsCall(last')
          => \A k \in KeysOf(target) :
                ~(OkWrite(last') /\ last'.key = k) => ReadOutcome(k)' = ReadOutcome(k)]_vars

\* C10: the reserved key.  On the file backend the key equal to the final
\* component of the base path cannot be stored or read: every read and write of
\* it returns an I/O error, in every state.
C10_ReservedKeyFails ==
    target \in FileTargets =>
        LET k == FileName(SelfPath)
        IN  /\ IsErr(ReadOutcome(k))
            /\ \A v \in Values : FileWrite(fs, SelfPath, k, v, NoFault).err # ""
            /\ (IsCall(last) /\ last.key = k) => last.err # ""
            /\ ~HasRecord(k)

\* a write of the reserved key has just failed on the base directory itself
C10_Witness ==
    /\ target \in FileTargets
    /\ last.op = "write" /\ last.key = FileName(SelfPath)
    /\ last.err = "IsADirectory" /\ last.path = SelfPath

====
